---- MODULE Spec2Model ----
(***************************************************************************)
(* Model of the Spotify Statistics polling coordinator                     *)
(* (custom_components/spotify_stats): one SpotifyStatsCoordinator, its     *)
(* refresh cycle _async_update_data with the staleness gates, the error    *)
(* classification, the entry setup that runs the first refresh, and the    *)
(* set_update_interval service with the refresh request it issues.         *)
(*                                                                         *)
(* Time is wall-clock seconds (dt_util.utcnow()); it advances by the steps *)
(* of TimeSteps, between cycles and while a cycle is suspended before one  *)
(* of its two gate checks (the only places that read the clock).           *)
(* A record held in a snapshot is identified by the cycle that fetched it  *)
(* (cyc), for the gated buckets by the time of the fetch (at), and by      *)
(* whether it is a normalised remote response ("ok"), the empty record     *)
(* a fetcher returns after swallowing an exception ("empty"), or a         *)
(* recently-played record whose track dicts an export has extended with    *)
(* audio features ("features").                                            *)
(* Refresh cycles of the coordinator do not overlap (spec section 5).      *)
(* The export services of services.py run beside the polling; the          *)
(* normalisation of response items by the fetchers is modelled on its own. *)
(***************************************************************************)
EXTENDS Integers, Sequences, FiniteSets, TLC

VARIABLES
    now,                        \* dt_util.utcnow(), seconds
    advances,                   \* number of time advances so far (bounded)
    now_playing_interval,       \* self.now_playing_interval
    recently_played_interval,   \* self.recently_played_interval
    update_interval,            \* self.update_interval, seconds
    last_followed_update,       \* self._last_followed_update (NoTime = None)
    last_top_stats_update,      \* self._last_top_stats_update (NoTime = None)
    data,                       \* self.data: the committed snapshot (NoData = None)
    sp,                         \* self.sp: cycle whose token built the client (0 = None)
    pc,                         \* position of the running cycle, "idle" if none
    cdata,                      \* the local dict `data` of _async_update_data
    kind,                       \* what started the running cycle
    cycle,                      \* number of cycles started so far (bounded)
    registered,                 \* coordinator stored in hass.data[DOMAIN]
    db_timer,                   \* request-refresh debouncer: cooldown timer running
    db_pending,                 \* request-refresh debouncer: execute at end of timer
    called,                     \* buckets a remote call was issued for in this cycle
    faults,                     \* <<step, response>> failures seen in this cycle
    outcome,                    \* how the last cycle ended / "running" / "none"
    committed,                  \* the snapshot returned by the last successful cycle
    n_reconf,                   \* async_set_update_interval calls so far (bounded)
    n_req_cycles,               \* cycles started by async_request_refresh so far
    nfaults,                    \* failing remote/provider answers so far (bounded)
    exp,                        \* the export action in flight (NoExport if none)
    files,                      \* the file each export action writes to
    n_exports,                  \* export actions called so far (bounded)
    remote,                     \* the remote response a fetcher is normalising
    fetched,                    \* what that fetcher returned or raised
    pager,                      \* a paginating fetcher's loop and the service's pages
    flows,                      \* the config flows in progress
    entries,                    \* the host's config entries, entry id = index
    registry                    \* hass.data[DOMAIN]: entry id -> coordinator, in dict order

vars == << now, advances, now_playing_interval, recently_played_interval,
           update_interval, last_followed_update, last_top_stats_update, data,
           sp, pc, cdata, kind, cycle, registered, db_timer, db_pending,
           called, faults, outcome, committed, n_reconf, n_req_cycles,
           nfaults, exp, files, n_exports, remote, fetched, pager, flows,
           entries, registry >>

---------------------------------------------------------------------------
(* Program constants (const.py)                                            *)

UPDATE_INTERVAL_FOLLOWED == 3600
UPDATE_INTERVAL_TOP_STATS == 86400
DEFAULT_NOW_PLAYING_INTERVAL == 30
DEFAULT_RECENTLY_PLAYED_INTERVAL == 300
MIN_NOW_PLAYING_INTERVAL == 30
MAX_NOW_PLAYING_INTERVAL == 300
MIN_RECENTLY_PLAYED_INTERVAL == 300
MAX_RECENTLY_PLAYED_INTERVAL == 3600

\* results[:20], playlists[:20], tracks[:20], albums[:20]
DISPLAY_LIMIT == 20

\* current_user_recently_played(limit=20)
RECENTLY_PLAYED_LIMIT == 20

(* Bounds of the model                                                     *)
MaxAdvances == 3
MaxCycles == 3
MaxReconfigure == 2
MaxFaults == 1
MaxItems == 22
MaxExports == 2
MaxPlaylists == 2
MaxPages == 3
MaxPageItems == 2
MaxFlows == 2

(* Time steps: T+1800 is inside the followed gate, T+1800+1800 is its      *)
(* boundary 3600, T+1800+1900 is T+3700, T+84600+1800 is the boundary      *)
(* 86400 of the top-stats gate, T+84600 is inside it.                      *)
TimeSteps == {1800, 1900, 84600}

(* Interval values offered to the config flow and to the service; the      *)
(* schemas reject the ones outside their ranges.                           *)
NowPlayingInputs == {10, 30, 300}

(* What the saved-library total can exceed the fetched page by             *)
MoreTotals == {0, 30}
RecentlyPlayedInputs == {300, 3600, 7200}

NoTime == -1
NoArg == 0

\* the export services
SERVICE_EXPORT_FOLLOWED_ARTISTS == "export_followed_artists"
SERVICE_EXPORT_SAVED_LIBRARY == "export_saved_library"
SERVICE_EXPORT_PLAYLISTS == "export_playlists"
SERVICE_EXPORT_RECENTLY_PLAYED_CSV == "export_recently_played_csv"
SERVICE_EXPORT_TOP_STATS_CSV == "export_top_stats_csv"

ExportActions ==
    { SERVICE_EXPORT_FOLLOWED_ARTISTS, SERVICE_EXPORT_SAVED_LIBRARY, SERVICE_EXPORT_PLAYLISTS,
      SERVICE_EXPORT_RECENTLY_PLAYED_CSV, SERVICE_EXPORT_TOP_STATS_CSV }

\* the exports that await an executor job which calls the remote service
\* through coordinator.sp (export_recently_played_csv only with audio features)
RemoteExports == { SERVICE_EXPORT_FOLLOWED_ARTISTS, SERVICE_EXPORT_SAVED_LIBRARY, SERVICE_EXPORT_PLAYLISTS }

\* no export action has been called: act is the service, pc its position
\* ("idle", or "remote" while its executor job runs), sp the client instance
\* passed to the job, snap the cycle whose recently-played record it read,
\* new its new_tracks, result how it ended
NoExport == [act |-> "none", pc |-> "idle", sp |-> 0, snap |-> 0, append |-> FALSE,
             features |-> FALSE, new |-> << >>, result |-> "none"]

\* a file that does not exist
NoFile == [exists |-> FALSE, rows |-> << >>]

\* no remote response is being normalised
NoRemote == [b |-> "none", n |-> 0, bad |-> 0, more |-> 0]

\* after=None of the first current_user_followed_artists call, and the null
\* `next` of the last page
NoCursor == 0

\* limit=50 of the paginated calls, the step of `offset += 50`
PAGE_LIMIT == 50

\* no paginating fetcher is running
NoPager == [kind |-> "none", sizes |-> << >>, arg |-> 0, results |-> << >>,
            requests |-> << >>, served |-> << >>, done |-> FALSE]

\* a config flow before its form is submitted
NoFlow == [stage |-> "idle", username |-> << >>]

\* no coordinator object
NoCoordinator == [username |-> << >>, snap |-> 0, clock |-> 0, np |-> 0, rp |-> 0,
                  period |-> 0, running |-> FALSE]

\* no fetcher has returned yet
NoFetch == [done |-> FALSE, raised |-> "none", count |-> 0, display |-> << >>,
            full |-> << >>, ranks |-> << >>]

---------------------------------------------------------------------------
(* Buckets                                                                 *)

SENSOR_NOW_PLAYING == "now_playing"
SENSOR_RECENTLY_PLAYED == "recently_played"
SENSOR_FOLLOWED_ARTISTS == "followed_artists"
SENSOR_USER_PLAYLISTS == "user_playlists"
SENSOR_SAVED_TRACKS == "saved_tracks"
SENSOR_SAVED_ALBUMS == "saved_albums"

\* the keys _fetch_top_stats builds, in the order of its six remote calls
TopOrder == << "top_artists_4weeks", "top_artists_6months", "top_artists_alltime",
               "top_tracks_4weeks", "top_tracks_6months", "top_tracks_alltime" >>

TopKeys == { TopOrder[i] : i \in 1..Len(TopOrder) }

UngatedBuckets == { SENSOR_NOW_PLAYING, SENSOR_RECENTLY_PLAYED, SENSOR_USER_PLAYLISTS,
                    SENSOR_SAVED_TRACKS, SENSOR_SAVED_ALBUMS }

Buckets == UngatedBuckets \cup {SENSOR_FOLLOWED_ARTISTS} \cup TopKeys

\* the fetchers that wrap their whole body in try/except Exception
SwallowingBuckets == { SENSOR_USER_PLAYLISTS, SENSOR_SAVED_TRACKS, SENSOR_SAVED_ALBUMS }

\* what a remote call answers: a response, SpotifyException(401),
\* SpotifyException(500), or another exception (transport, KeyError, ...)
RemoteResp == { "ok", "401", "500", "exc" }

\* what session.async_ensure_token_valid() and session.token give
TokenResp == { "ok", "revoked", "no_access_token", "network" }

NoData == [b \in {} |-> 0]

\* the two ways a refresh cycle fails
Failures == {"AuthRequired", "UpdateFailed"}

HasData == DOMAIN data # {}

Rec(c, t, s) == [cyc |-> c, at |-> t, st |-> s]

\* the None that dict.get returns for a missing key
NoneRec == Rec(0, NoTime, "none")

Min(a, b) == IF a <= b THEN a ELSE b

MinOf(S) == CHOOSE x \in S : \A y \in S : x <= y

---------------------------------------------------------------------------
(* Pure parts of the coordinator                                           *)

\* mutant: the gate compares with the polling interval instead of the hourly one
ShouldUpdateFollowedShortGate(last, t) ==
    IF last = NoTime THEN TRUE ELSE (t - last) >= DEFAULT_NOW_PLAYING_INTERVAL

\* mutant: the boundary value is not due
ShouldUpdateFollowedStrict(last, t) ==
    IF last = NoTime THEN TRUE ELSE (t - last) > UPDATE_INTERVAL_FOLLOWED

\* _should_update_followed
ShouldUpdateFollowed(last, t) ==
    IF last = NoTime THEN TRUE ELSE (t - last) >= UPDATE_INTERVAL_FOLLOWED

\* _should_update_top_stats
ShouldUpdateTopStats(last, t) ==
    IF last = NoTime THEN TRUE ELSE (t - last) >= UPDATE_INTERVAL_TOP_STATS

\* mutant: an ungated bucket is fetched only while there is no snapshot yet
UngatedDueOnce(b, has) == ~has

\* now-playing, recently-played, playlists, saved tracks, saved albums are
\* fetched unconditionally: the code has no gate in front of them
UngatedDue(b, has) == TRUE

\* _async_ensure_token_valid: every exception, the missing access_token
\* included, leaves as ConfigEntryAuthFailed
EnsureTokenValid(r) == IF r = "ok" THEN "token" ELSE "ConfigEntryAuthFailed"

\* _init_spotify_client: every exception leaves as ConfigEntryAuthFailed
InitSpotifyClient(r) == IF r = "ok" THEN "client" ELSE "ConfigEntryAuthFailed"

\* the except clauses of the first try block of _async_update_data
ClassifySetup(raised) ==
    IF raised = "ConfigEntryAuthFailed" THEN "AuthRequired" ELSE "UpdateFailed"

\* the except clauses of the second try block of _async_update_data
ClassifyFetch(r) ==
    IF r \in {"401", "500"}
    THEN (IF r = "401" THEN "AuthRequired" ELSE "UpdateFailed")
    ELSE "UpdateFailed"

\* a raising fetcher (_fetch_now_playing, _fetch_recently_played,
\* _fetch_followed_artists): the bucket's record, or the exception of the
\* remote call
FetchRaising(b, r, c, t) ==
    IF r = "ok" THEN [raised |-> "none", value |-> (b :> Rec(c, t, "ok"))]
    ELSE [raised |-> r, value |-> NoData]

\* mutant: the fetcher has no except clause of its own
FetchSwallowingRaises(b, r, c, t) ==
    IF r = "ok" THEN [raised |-> "none", value |-> (b :> Rec(c, t, "ok"))]
    ELSE [raised |-> r, value |-> NoData]

\* a swallowing fetcher (_fetch_user_playlists, _fetch_saved_tracks,
\* _fetch_saved_albums): except Exception returns the empty record
FetchSwallowing(b, r, c, t) ==
    IF r = "ok" THEN [raised |-> "none", value |-> (b :> Rec(c, t, "ok"))]
    ELSE [raised |-> "none", value |-> (b :> Rec(c, t, "empty"))]

\* the fetcher _async_update_data runs for an ungated bucket
Fetcher(b, r, c, t) ==
    IF b \in SwallowingBuckets THEN FetchSwallowing(b, r, c, t)
    ELSE FetchRaising(b, r, c, t)

\* the responses of the six calls of _fetch_top_stats when call k fails with r
\* (k = 0: none fails)
TopStatsCalls(k, r) == [i \in 1..Len(TopOrder) |-> IF i = k THEN r ELSE "ok"]

\* mutant: the fetcher swallows the exception and returns the records it has
FetchTopStatsPartial(resps, c, t) ==
    LET bad == { i \in 1..Len(TopOrder) : resps[i] # "ok" }
        got == IF bad = {} THEN TopKeys
               ELSE { TopOrder[i] : i \in 1..(MinOf(bad) - 1) }
    IN  [raised |-> "none", value |-> [key \in got |-> Rec(c, t, "ok")]]

\* _fetch_top_stats: six calls in order, the first exception leaves the fetcher
FetchTopStats(resps, c, t) ==
    LET bad == { i \in 1..Len(TopOrder) : resps[i] # "ok" }
    IN  IF bad = {}
        THEN [raised |-> "none", value |-> [key \in TopKeys |-> Rec(c, t, "ok")]]
        ELSE [raised |-> resps[MinOf(bad)], value |-> NoData]

\* mutant: the carry-forward reads the dict under construction, which has no
\* record of a gated bucket yet
CarryForwardLocal(prev, keys) ==
    [raised |-> "none", value |-> [key \in keys |-> NoneRec]]

\* self.data.get(key) of the carry-forward branches: self.data is None before
\* the first successful cycle, and None.get raises AttributeError
CarryForward(prev, keys) ==
    IF DOMAIN prev = {}
    THEN [raised |-> "exc", value |-> NoData]
    ELSE [raised |-> "none",
          value |-> [key \in keys |->
                        IF key \in DOMAIN prev THEN prev[key] ELSE NoneRec]]

\* mutant: a cycle that raised clears the snapshot
DataAfterFailureCleared(prev, partial) == NoData

\* mutant: the except clause returns the dict built so far
DataAfterFailurePartial(prev, partial) == partial @@ prev

\* what self.data is after a cycle that raised: DataUpdateCoordinator assigns
\* self.data only from the value _async_update_data returns
DataAfterFailure(prev, partial) == prev

\* mutant: the dict under construction is what readers see
DataDuringCyclePartial(prev, partial) == partial @@ prev

\* what self.data is while _async_update_data runs: the fetchers fill the
\* local dict `data`, self.data is assigned by the caller from the return value
DataDuringCycle(prev, partial) == prev

\* mutant: the client is built only while there is none
SpotifyClientCached(c, old) == IF old = 0 THEN c ELSE old

\* self.sp = spotipy.Spotify(auth=access_token): a new client instance in
\* every cycle, identified by the cycle whose token it was built from
SpotifyClient(c, old) == c

\* SET_UPDATE_INTERVAL_SCHEMA / the config-flow schema: vol.Range
ValidNowPlaying(i) == MIN_NOW_PLAYING_INTERVAL <= i /\ i <= MAX_NOW_PLAYING_INTERVAL

ValidRecentlyPlayed(i) ==
    MIN_RECENTLY_PLAYED_INTERVAL <= i /\ i <= MAX_RECENTLY_PLAYED_INTERVAL

\* mutant: the coordinator is stored before its first refresh has ended
StoredBeforeRefresh(k, result, was) == IF k = "first" THEN TRUE ELSE was

\* async_setup_entry: hass.data[DOMAIN][entry.entry_id] = coordinator follows
\* the first refresh, which raises when it failed; later cycles leave the
\* registry alone
Stored(k, result, was) == IF k = "first" THEN result = "ok" ELSE was

\* mutant: the constructor takes the other interval
InitialUpdateIntervalOther(np, rp) == rp

\* __init__: update_interval=timedelta(seconds=self.now_playing_interval)
InitialUpdateInterval(np, rp) == np

\* mutant: the longer of the two
TickPeriodLonger(np, rp) == IF np >= rp THEN np ELSE rp

\* async_set_update_interval: the shorter of the two
TickPeriod(np, rp) == Min(np, rp)

---------------------------------------------------------------------------
(* Normalisation of a remote response by the bucket fetchers. A response   *)
(* is the list of its items 1..n in remote order (all pages together), of  *)
(* which item `bad`, if not 0, lacks a required field (a track without     *)
(* album or artists, an artist or playlist without external_urls); for the *)
(* saved library the remote total is n + more.                             *)

\* the buckets whose fetcher normalises a list of items
ItemBuckets ==
    { SENSOR_RECENTLY_PLAYED, SENSOR_FOLLOWED_ARTISTS, SENSOR_USER_PLAYLISTS,
      SENSOR_SAVED_TRACKS, SENSOR_SAVED_ALBUMS } \cup TopKeys

\* the buckets whose record holds a truncated display list
TruncatedBuckets ==
    { SENSOR_FOLLOWED_ARTISTS, SENSOR_USER_PLAYLISTS, SENSOR_SAVED_TRACKS,
      SENSOR_SAVED_ALBUMS }

Items(rm) == [i \in 1..rm.n |-> i]

\* the items of a response that have every required field, in remote order
GoodItems(rm) == SelectSeq(Items(rm), LAMBDA i : i # rm.bad)

\* tracks.append({... track["album"]["name"] ...}) in a loop without a
\* try: the first item that lacks a field raises KeyError out of the loop
NormaliseStrict(rm) ==
    IF rm.bad # 0 THEN [raised |-> "exc", list |-> << >>]
    ELSE [raised |-> "none", list |-> Items(rm)]

\* the loops of _fetch_saved_tracks / _fetch_saved_albums: `continue` on a
\* missing track, on missing fields and on KeyError/IndexError/TypeError
NormaliseSkipping(rm) == [raised |-> "none", list |-> GoodItems(rm)]

\* mutant: the display list is the tail of the full list
DisplayListTail(full) ==
    IF Len(full) <= DISPLAY_LIMIT THEN full
    ELSE SubSeq(full, Len(full) - DISPLAY_LIMIT + 1, Len(full))

\* results[:20]
DisplayList(full) == SubSeq(full, 1, Min(DISPLAY_LIMIT, Len(full)))

\* mutant: the rank is the enumerate index itself
RankOfIndex(idx) == idx

\* "rank": idx + 1, idx the 0-based index of enumerate(items)
RankOf(idx) == idx + 1

\* the rank fields of the list comprehension over enumerate(list)
Ranks(list) == [i \in 1..Len(list) |-> RankOf(i - 1)]

\* the record a fetcher returns for the response rm, or what it raises; the
\* entries of a top-stats list carry a rank, the other lists none
FetchRecord(rm) ==
    LET strict == NormaliseStrict(rm)
        skip == NormaliseSkipping(rm)
        rec(c, d, f) == [done |-> TRUE, raised |-> "none", count |-> c,
                         display |-> d, full |-> f, ranks |-> << >>]
        raise(e) == [done |-> TRUE, raised |-> e, count |-> 0, display |-> << >>,
                     full |-> << >>, ranks |-> << >>]
    IN  CASE rm.b \in TopKeys ->
                 IF strict.raised # "none" THEN raise(strict.raised)
                 ELSE [rec(Len(strict.list), strict.list, strict.list)
                          EXCEPT !.ranks = Ranks(strict.list)]
          [] rm.b = SENSOR_RECENTLY_PLAYED ->
                 IF strict.raised # "none" THEN raise(strict.raised)
                 ELSE rec(Len(strict.list), strict.list, strict.list)
          [] rm.b = SENSOR_FOLLOWED_ARTISTS ->
                 IF strict.raised # "none" THEN raise(strict.raised)
                 ELSE rec(Len(strict.list), DisplayList(strict.list), strict.list)
          [] rm.b = SENSOR_USER_PLAYLISTS ->
                 IF strict.raised # "none" THEN rec(0, << >>, << >>)
                 ELSE rec(Len(strict.list), DisplayList(strict.list), strict.list)
          [] OTHER ->
                 rec(rm.n + rm.more, DisplayList(skip.list), skip.list)

---------------------------------------------------------------------------
(* Pagination. The service holds a list as pages 1..k of sizes[1..k]      *)
(* items; item j of page p is << p, j >>. Every page but the last has a    *)
(* non-null `next`. A cursor-paged call (followed artists) answers         *)
(* after=None with page 1 and after=c with the page that follows the one   *)
(* whose cursors.after was c, the cursor given with page p being p; an     *)
(* offset-paged call (saved albums, saved tracks) answers offset o with    *)
(* the page that starts at item o, pages being full (PAGE_LIMIT items, of  *)
(* which the model keeps sizes[p]).                                        *)

PageItems(sizes, p) == [j \in 1..sizes[p] |-> << p, j >>]

\* what the service answers to the call with argument arg
ServePage(pk, sizes, arg) ==
    LET p == IF pk = "followed" THEN arg + 1 ELSE (arg \div PAGE_LIMIT) + 1
    IN  [page |-> p,
         items |-> PageItems(sizes, p),
         next |-> IF p < Len(sizes) THEN p + 1 ELSE NoCursor,
         after |-> IF p < Len(sizes) THEN p ELSE NoCursor]

\* mutant: the loop stops after its first page
MorePagesOnce(resp) == FALSE

\* `if not artists["next"]: break` / `if not results["next"]: break`
MorePages(resp) == resp.next # NoCursor

\* `after = artists["cursors"]["after"]` / `offset += 50`
NextPageArg(pk, arg, resp) ==
    IF pk = "followed" THEN resp.after ELSE arg + PAGE_LIMIT

\* the first argument: after = None / offset = 0
FirstPageArg(pk) == IF pk = "followed" THEN NoCursor ELSE 0

RECURSIVE ConcatPages(_, _)
\* the items of pages 1..k in order
ConcatPages(sizes, k) ==
    IF k = 0 THEN << >> ELSE ConcatPages(sizes, k - 1) \o PageItems(sizes, k)

---------------------------------------------------------------------------
(* Usernames, the registry and the per-account summary of a coordinator.   *)
(* A username is the list of its characters.                               *)

\* str.lower() on the letters the usernames of the model are made of
UpperToLower == ("A" :> "a") @@ ("B" :> "b") @@ ("C" :> "c")

Lower(ch) == IF ch \in DOMAIN UpperToLower THEN UpperToLower[ch] ELSE ch

\* str.replace(old, new) on one character
Replace(ch, old, new) == IF ch = old THEN new ELSE ch

\* username.lower().replace(" ", "_").replace("-", "_")
sanitize_username(u) ==
    [i \in 1..Len(u) |-> Replace(Replace(Lower(u[i]), " ", "_"), "-", "_")]

\* the entry async_create_entry makes from the flow's stored values
NewEntry(u) ==
    [username |-> u, state |-> "not_loaded", step |-> "none", co |-> NoCoordinator]

\* SpotifyStatsCoordinator(hass, entry, session): every field is an
\* attribute of the instance; snap is the snapshot object (0 none; each
\* commit replaces it by another one, 1 and 2 in turn), clock is 1 once
\* followed-artists was fetched
NewCoordinator(entry) ==
    [username |-> entry.username, snap |-> 0, clock |-> 0,
     np |-> DEFAULT_NOW_PLAYING_INTERVAL, rp |-> DEFAULT_RECENTLY_PLAYED_INTERVAL,
     period |-> InitialUpdateInterval(DEFAULT_NOW_PLAYING_INTERVAL,
                                      DEFAULT_RECENTLY_PLAYED_INTERVAL),
     running |-> FALSE]

\* the keys of hass.data[DOMAIN]
RegistryIds(reg) == { reg[i].id : i \in 1..Len(reg) }

RegistryIndex(reg, e) == CHOOSE i \in 1..Len(reg) : reg[i].id = e

\* hass.data[DOMAIN].get(entry_id)
CoordinatorOf(reg, e) ==
    IF e \in RegistryIds(reg) THEN reg[RegistryIndex(reg, e)].co ELSE NoCoordinator

\* hass.data[DOMAIN][entry.entry_id] = coordinator: a new key goes to the
\* end of the dict, an existing key keeps its place
Store(reg, e, c) ==
    IF e \in RegistryIds(reg)
    THEN [reg EXCEPT ![RegistryIndex(reg, e)].co = c]
    ELSE Append(reg, [id |-> e, co |-> c])

\* hass.data[DOMAIN].pop(entry.entry_id)
Pop(reg, e) == SelectSeq(reg, LAMBDA x : x.id # e)

\* get_coordinator_for_username: the first coordinator in dict order whose
\* sanitized username is the sanitized argument; the result is given as its
\* entry id, 0 for None
get_coordinator_for_username(reg, u) ==
    LET hits == { i \in 1..Len(reg) :
                    sanitize_username(reg[i].co.username) = sanitize_username(u) }
    IN  IF hits = {} THEN 0 ELSE reg[MinOf(hits)].id

\* async_set_update_interval(now_playing, None) on the coordinator c:
\* self.now_playing_interval, self.update_interval, then
\* async_request_refresh, which starts a cycle unless one is running
Reconfigured(c, np) ==
    [c EXCEPT !.np = np, !.period = TickPeriod(np, c.rp), !.running = TRUE]

\* mutant: the intervals are attributes of the class, shared by all instances
SetIntervalsShared(reg, e, np) ==
    [i \in 1..Len(reg) |->
        [reg[i] EXCEPT !.co = IF reg[i].id = e THEN Reconfigured(@, np)
                              ELSE [@ EXCEPT !.np = np,
                                             !.period = TickPeriod(np, reg[i].co.rp)]]]

\* the set_update_interval handler: only the coordinator it resolved, the
\* one stored for entry e, is touched
SetIntervals(reg, e, np) ==
    [reg EXCEPT ![RegistryIndex(reg, e)].co = Reconfigured(@, np)]

\* how a refresh cycle ends for the coordinator c: a commit replaces the
\* snapshot; the wall clock standing still, followed-artists is fetched, and
\* its clock set, in the first cycle only
CycleEnd(c, result) ==
    [c EXCEPT !.running = FALSE,
              !.snap = IF result = "ok" THEN (IF @ = 1 THEN 2 ELSE 1) ELSE @,
              !.clock = IF result = "ok" THEN 1 ELSE @]

---------------------------------------------------------------------------
(* Pure parts of the export services (services.py). A file is a list of    *)
(* rows, a row a list of text cells.                                       *)

\* the played_at values of the recently-played record fetched in cycle c,
\* most recent first: each cycle sees one new play and the previous one
PlayedAt(c) == << ToString(c + 1), ToString(c) >>

\* the CSV columns (of the twelve track columns only played_at is kept, of
\* the eleven audio-feature columns only tempo)
Columns(features) ==
    IF features THEN << "username", "played_at", "tempo" >>
    ELSE << "username", "played_at" >>

\* row = {"username": username}; row.update({col: track.get(col, "")})
CsvRow(played_at, features) ==
    IF features THEN << "user", played_at, "bpm" >> ELSE << "user", played_at >>

\* csv.DictReader over the file: the first row gives the field names, every
\* later row is zipped with them; {row["played_at"] for row in reader if
\* "played_at" in row}
ExistingTimestamps(file) ==
    IF ~file.exists \/ Len(file.rows) = 0 THEN {}
    ELSE LET names == file.rows[1]
             cols == { i \in 1..Len(names) : names[i] = "played_at" }
         IN  UNION { { file.rows[k][i] : i \in { j \in cols : j <= Len(file.rows[k]) } } :
                     k \in 2..Len(file.rows) }

\* mutant: every track of the snapshot is new
NewTracksAll(tracks, existing) == tracks

\* [track for track in tracks if track["played_at"] not in existing_timestamps]
NewTracks(tracks, existing) == SelectSeq(tracks, LAMBDA t : t \notin existing)

\* the file after the with open(filepath, mode) block: mode "a" without
\* header when appending to an existing file, else "w" with header
WriteCsv(file, append, new, features) ==
    LET rows == [i \in 1..Len(new) |-> CsvRow(new[i], features)]
    IN  IF append /\ file.exists
        THEN [exists |-> TRUE, rows |-> file.rows \o rows]
        ELSE [exists |-> TRUE, rows |-> << Columns(features) >> \o rows]

\* what the per-playlist sp.playlist() calls of _fetch_playlists can answer
PlaylistAnswers == [1..MaxPlaylists -> {"ok", "404", "500"}]

AllOk == [i \in 1..MaxPlaylists |-> "ok"]

\* _fetch_playlists: when sp.playlist raises, matching the first except
\* clause evaluates spotipy.exceptions.SpotifyException in a module that
\* does not import spotipy, which raises NameError out of the function
FetchPlaylists(resp, pls) ==
    IF resp # "ok" THEN [raised |-> resp, rows |-> << >>]
    ELSE IF \E i \in 1..MaxPlaylists : pls[i] # "ok"
         THEN [raised |-> "NameError", rows |-> << >>]
         ELSE [raised |-> "none",
               rows |-> [i \in 1..MaxPlaylists |-> << ToString(i), "full" >>]]

\* the executor job of an export: _fetch_all_artists_metadata keeps the basic
\* record of an artist whose fetch fails and never raises,
\* _fetch_saved_library and sp.audio_features raise what the remote call raises
ExportJob(act, resp, pls) ==
    CASE act = SERVICE_EXPORT_FOLLOWED_ARTISTS ->
             [raised |-> "none", rows |-> << << "artists" >> >>]
      [] act = SERVICE_EXPORT_PLAYLISTS -> FetchPlaylists(resp, pls)
      [] act = SERVICE_EXPORT_SAVED_LIBRARY ->
             IF resp = "ok" THEN [raised |-> "none", rows |-> << << "albums", "tracks" >> >>]
             ELSE [raised |-> resp, rows |-> << >>]
      [] OTHER ->
             IF resp = "ok" THEN [raised |-> "none", rows |-> << >>]
             ELSE [raised |-> resp, rows |-> << >>]

\* track.update({...audio features...}) on the dicts of new_tracks, which
\* are the dicts of coordinator.data["recently_played"]["tracks"] as long as
\* the snapshot is still the one the export read
MergeAudioFeatures(snapshot, snap) ==
    IF snapshot[SENSOR_RECENTLY_PLAYED].cyc = snap
    THEN [snapshot EXCEPT ![SENSOR_RECENTLY_PLAYED].st = "features"]
    ELSE snapshot

---------------------------------------------------------------------------
(* State after SpotifyStatsCoordinator.__init__, for an entry whose        *)
(* intervals passed the config-flow schema                                 *)

\* the state __init__ leaves, for entry intervals drawn from nps and rps
InitWith(nps, rps) ==
    /\ now = 0
    /\ advances = 0
    /\ now_playing_interval \in { i \in nps : ValidNowPlaying(i) }
    /\ recently_played_interval \in { i \in rps : ValidRecentlyPlayed(i) }
    /\ update_interval =
           InitialUpdateInterval(now_playing_interval, recently_played_interval)
    /\ last_followed_update = NoTime
    /\ last_top_stats_update = NoTime
    /\ data = NoData
    /\ sp = 0
    /\ pc = "idle"
    /\ cdata = NoData
    /\ kind = "none"
    /\ cycle = 0
    /\ registered = FALSE
    /\ db_timer = FALSE
    /\ db_pending = FALSE
    /\ called = {}
    /\ faults = {}
    /\ outcome = "none"
    /\ committed = NoData
    /\ n_reconf = 0
    /\ n_req_cycles = 0
    /\ nfaults = 0
    /\ exp = NoExport
    /\ files = [a \in ExportActions |-> NoFile]
    /\ n_exports = 0
    /\ fetched = NoFetch
    /\ flows = [f \in 1..MaxFlows |-> NoFlow]
    /\ entries = << >>
    /\ registry = << >>

\* any entry the config flow accepts
Init ==
    /\ InitWith(NowPlayingInputs, RecentlyPlayedInputs)
    /\ remote = NoRemote
    /\ pager = NoPager

\* the entry with the config flow's default intervals
InitDefault ==
    /\ InitWith({DEFAULT_NOW_PLAYING_INTERVAL}, {DEFAULT_RECENTLY_PLAYED_INTERVAL})
    /\ remote = NoRemote
    /\ pager = NoPager

timeVars == << now, advances >>

intervalVars == << now_playing_interval, recently_played_interval, update_interval >>

clockVars == << last_followed_update, last_top_stats_update >>

exportVars == << exp, files, n_exports >>

fetchVars == << remote, fetched >>

accountVars == << flows, entries, registry >>

hostVars == << pager, accountVars >>

serviceVars == << exp, files, n_exports, remote, fetched, hostVars >>

---------------------------------------------------------------------------
(* The wall clock                                                          *)

\* the clock is read by _should_update_followed and _should_update_top_stats
\* only, so time that passes during a cycle is seen at those two checks
Advance(d) ==
    /\ advances < MaxAdvances
    /\ pc \in {"idle", SENSOR_FOLLOWED_ARTISTS, "top_stats"}
    /\ now' = now + d
    /\ advances' = advances + 1
    /\ UNCHANGED << intervalVars, clockVars, data, sp, pc, cdata, kind, cycle,
                    registered, db_timer, db_pending, called, faults, outcome,
                    committed, n_reconf, n_req_cycles, nfaults >>
    /\ UNCHANGED serviceVars

---------------------------------------------------------------------------
(* Start and end of a refresh cycle (DataUpdateCoordinator._async_refresh  *)
(* around _async_update_data)                                              *)

\* a cycle starts: _async_refresh cancels the debouncer, then calls
\* _async_update_data
StartCycle(k) ==
    /\ cycle < MaxCycles
    /\ pc' = "token"
    /\ kind' = k
    /\ cycle' = cycle + 1
    /\ cdata' = NoData
    /\ called' = {}
    /\ faults' = {}
    /\ outcome' = "running"
    /\ db_timer' = FALSE
    /\ db_pending' = FALSE
    /\ n_req_cycles' = IF k = "request" THEN n_req_cycles + 1 ELSE n_req_cycles

\* the cycle ends with `result`, self.data becoming newdata; the first
\* refresh of async_setup_entry stores the coordinator when it succeeded;
\* the debouncer starts its cooldown timer after a refresh it ran
EndCycle(result, newdata) ==
    /\ pc' = "idle"
    /\ kind' = "none"
    /\ cdata' = NoData
    /\ outcome' = result
    /\ data' = newdata
    /\ committed' = IF result = "ok" THEN newdata ELSE committed
    /\ registered' = Stored(kind, result, registered)
    /\ db_timer' = (kind = "request")
    /\ UNCHANGED db_pending

\* the cycle goes on to its next await
Continue(next, newcdata) ==
    /\ pc' = next
    /\ cdata' = newcdata
    /\ data' = DataDuringCycle(data, newcdata)
    /\ UNCHANGED << committed, registered, kind, outcome, db_timer, db_pending >>

\* the cycle raises: self.data is what DataAfterFailure leaves
Raise(result) == EndCycle(result, DataAfterFailure(data, cdata))

\* the next await after bucket b in _async_update_data
NextPc(b) ==
    CASE b = SENSOR_NOW_PLAYING -> SENSOR_RECENTLY_PLAYED
      [] b = SENSOR_RECENTLY_PLAYED -> SENSOR_FOLLOWED_ARTISTS
      [] b = SENSOR_FOLLOWED_ARTISTS -> "top_stats"
      [] b = "top_stats" -> SENSOR_USER_PLAYLISTS
      [] b = SENSOR_USER_PLAYLISTS -> SENSOR_SAVED_TRACKS
      [] b = SENSOR_SAVED_TRACKS -> SENSOR_SAVED_ALBUMS
      [] OTHER -> "return"

\* data[...] = <result of a fetcher or of the carry-forward>, then the next
\* statement; `issued` are the buckets a remote call was made for, r the
\* response of the failing call if any
Assign(b, res, issued, r) ==
    /\ called' = called \cup issued
    /\ IF res.raised = "none"
       THEN /\ faults' = IF issued # {} /\ r # "ok"
                         THEN faults \cup {<< b, r >>} ELSE faults
            /\ IF NextPc(b) = "return"
               THEN EndCycle("ok", res.value @@ cdata)
               ELSE Continue(NextPc(b), res.value @@ cdata)
       ELSE /\ faults' = faults \cup {<< b, res.raised >>}
            /\ Raise(ClassifyFetch(res.raised))

\* a failing answer uses up one unit of the model's fault budget
Answer(r) ==
    /\ r # "ok" => nfaults < MaxFaults
    /\ nfaults' = IF r # "ok" THEN nfaults + 1 ELSE nfaults

---------------------------------------------------------------------------
(* The steps of _async_update_data, one per await                          *)

StepToken(r) ==
    /\ pc = "token"
    /\ Answer(r)
    /\ IF EnsureTokenValid(r) = "token"
       THEN Continue("client", cdata) /\ UNCHANGED faults
       ELSE /\ Raise(ClassifySetup(EnsureTokenValid(r)))
            /\ faults' = faults \cup {<< "token", r >>}
    /\ UNCHANGED << timeVars, intervalVars, clockVars, sp, cycle, called,
                    n_reconf, n_req_cycles >>
    /\ UNCHANGED serviceVars

StepClient(r) ==
    /\ pc = "client"
    /\ Answer(r)
    /\ IF InitSpotifyClient(r) = "client"
       THEN /\ Continue(SENSOR_NOW_PLAYING, cdata)
            /\ sp' = SpotifyClient(cycle, sp)
            /\ UNCHANGED faults
       ELSE /\ Raise(ClassifySetup(InitSpotifyClient(r)))
            /\ faults' = faults \cup {<< "client", r >>}
            /\ UNCHANGED sp
    /\ UNCHANGED << timeVars, intervalVars, clockVars, cycle, called,
                    n_reconf, n_req_cycles >>
    /\ UNCHANGED serviceVars

StepUngated(b, r) ==
    /\ pc = b
    /\ IF UngatedDue(b, HasData)
       THEN Answer(r) /\ Assign(b, Fetcher(b, r, cycle, NoTime), {b}, r)
       ELSE r = "ok" /\ UNCHANGED nfaults /\ Assign(b, CarryForward(data, {b}), {}, r)
    /\ UNCHANGED << timeVars, intervalVars, clockVars, sp, cycle,
                    n_reconf, n_req_cycles >>
    /\ UNCHANGED serviceVars

StepFollowed(r) ==
    /\ pc = SENSOR_FOLLOWED_ARTISTS
    /\ IF ShouldUpdateFollowed(last_followed_update, now)
       THEN /\ Answer(r)
            /\ Assign(SENSOR_FOLLOWED_ARTISTS,
                      FetchRaising(SENSOR_FOLLOWED_ARTISTS, r, cycle, now),
                      {SENSOR_FOLLOWED_ARTISTS}, r)
            /\ last_followed_update' =
                   IF r = "ok" THEN now ELSE last_followed_update
       ELSE /\ r = "ok"
            /\ UNCHANGED nfaults
            /\ Assign(SENSOR_FOLLOWED_ARTISTS,
                      CarryForward(data, {SENSOR_FOLLOWED_ARTISTS}), {}, r)
            /\ UNCHANGED last_followed_update
    /\ UNCHANGED << timeVars, intervalVars, last_top_stats_update, sp, cycle,
                    n_reconf, n_req_cycles >>
    /\ UNCHANGED serviceVars

StepTopStats(k, r) ==
    /\ pc = "top_stats"
    /\ (k = 0) = (r = "ok")
    /\ IF ShouldUpdateTopStats(last_top_stats_update, now)
       THEN LET res == FetchTopStats(TopStatsCalls(k, r), cycle, now)
            IN  /\ Answer(r)
                /\ Assign("top_stats", res,
                          { TopOrder[i] : i \in 1..(IF k = 0 THEN Len(TopOrder) ELSE k) },
                          r)
                /\ last_top_stats_update' =
                       IF res.raised = "none" THEN now ELSE last_top_stats_update
       ELSE /\ k = 0
            /\ UNCHANGED nfaults
            /\ Assign("top_stats", CarryForward(data, TopKeys), {}, r)
            /\ UNCHANGED last_top_stats_update
    /\ UNCHANGED << timeVars, intervalVars, last_followed_update, sp, cycle,
                    n_reconf, n_req_cycles >>
    /\ UNCHANGED serviceVars

---------------------------------------------------------------------------
(* async_setup_entry (__init__.py)                                         *)

\* coordinator.async_config_entry_first_refresh()
FirstRefresh ==
    /\ ~registered
    /\ pc = "idle"
    /\ outcome = "none"
    /\ StartCycle("first")
    /\ UNCHANGED << timeVars, intervalVars, clockVars, data, sp, registered,
                    committed, n_reconf, nfaults >>
    /\ UNCHANGED serviceVars

\* the first refresh failed: setup raised, the coordinator was never stored;
\* the host sets the entry up again, which constructs a new coordinator
SetupRetry ==
    /\ ~registered
    /\ pc = "idle"
    /\ outcome \in {"AuthRequired", "UpdateFailed"}
    /\ update_interval' =
           InitialUpdateInterval(now_playing_interval, recently_played_interval)
    /\ last_followed_update' = NoTime
    /\ last_top_stats_update' = NoTime
    /\ data' = NoData
    /\ sp' = 0
    /\ cdata' = NoData
    /\ db_timer' = FALSE
    /\ db_pending' = FALSE
    /\ called' = {}
    /\ faults' = {}
    /\ outcome' = "none"
    /\ committed' = NoData
    /\ UNCHANGED << timeVars, now_playing_interval, recently_played_interval,
                    pc, kind, cycle, registered, n_reconf, n_req_cycles, nfaults >>
    /\ UNCHANGED serviceVars

---------------------------------------------------------------------------
(* The scheduled tick, the set_update_interval service and the debouncer   *)
(* behind async_request_refresh                                            *)

\* the scheduled refresh of a stored coordinator, every update_interval
Tick ==
    /\ registered
    /\ pc = "idle"
    /\ StartCycle("tick")
    /\ UNCHANGED << timeVars, intervalVars, clockVars, data, sp, registered,
                    committed, n_reconf, nfaults >>
    /\ UNCHANGED serviceVars

\* await self.async_request_refresh(): during the cooldown the request is
\* left for the end of the timer; while a requested refresh is running it is
\* dropped; otherwise the refresh starts at once
RequestRefresh ==
    IF db_timer
    THEN /\ db_pending' = TRUE
         /\ UNCHANGED << pc, kind, cycle, cdata, called, faults, outcome,
                         db_timer, n_req_cycles >>
    ELSE IF pc # "idle"
         THEN UNCHANGED << pc, kind, cycle, cdata, called, faults, outcome,
                           db_timer, db_pending, n_req_cycles >>
         ELSE StartCycle("request")

\* services.set_update_interval -> coordinator.async_set_update_interval;
\* the service resolves stored coordinators only and its schema bounds the
\* intervals; NoArg is an interval the call does not give
SetUpdateInterval(np, rp) ==
    /\ registered
    /\ kind # "tick"
    /\ n_reconf < MaxReconfigure
    /\ np = NoArg \/ ValidNowPlaying(np)
    /\ rp = NoArg \/ ValidRecentlyPlayed(rp)
    /\ now_playing_interval' = IF np # NoArg THEN np ELSE now_playing_interval
    /\ recently_played_interval' = IF rp # NoArg THEN rp ELSE recently_played_interval
    /\ update_interval' = TickPeriod(now_playing_interval', recently_played_interval')
    /\ n_reconf' = n_reconf + 1
    /\ RequestRefresh
    /\ UNCHANGED << timeVars, clockVars, data, sp, registered, committed, nfaults >>
    /\ UNCHANGED serviceVars

\* the debouncer's cooldown timer ends: a request left for it starts a refresh
TimerFinish ==
    /\ db_timer
    /\ pc = "idle"
    /\ IF db_pending
       THEN StartCycle("request")
       ELSE /\ db_timer' = FALSE
            /\ UNCHANGED << pc, kind, cycle, cdata, called, faults, outcome,
                            db_pending, n_req_cycles >>
    /\ UNCHANGED << timeVars, intervalVars, clockVars, data, sp, registered,
                    committed, n_reconf, nfaults >>
    /\ UNCHANGED serviceVars

---------------------------------------------------------------------------

\* the steps of a running cycle
CycleStep ==
    \/ \E r \in TokenResp : StepToken(r)
    \/ \E r \in {"ok", "exc"} : StepClient(r)
    \/ \E b \in UngatedBuckets, r \in RemoteResp : StepUngated(b, r)
    \/ \E r \in RemoteResp : StepFollowed(r)
    \/ \E k \in 0..Len(TopOrder), r \in RemoteResp : StepTopStats(k, r)

(* Polling over time: an entry with the default intervals, its setup, the  *)
(* scheduled ticks, the wall clock                                         *)

Next ==
    \/ \E d \in TimeSteps : Advance(d)
    \/ FirstRefresh
    \/ SetupRetry
    \/ Tick
    \/ CycleStep

Spec == InitDefault /\ [][Next]_vars

(* Reconfiguration: any entry the config flow accepts, its setup, the      *)
(* scheduled ticks, the set_update_interval service and the debouncer; the *)
(* wall clock stands still                                                 *)

NextReconf ==
    \/ FirstRefresh
    \/ SetupRetry
    \/ Tick
    \/ CycleStep
    \/ \E np \in NowPlayingInputs \cup {NoArg}, rp \in RecentlyPlayedInputs \cup {NoArg} :
           SetUpdateInterval(np, rp)
    \/ TimerFinish

SpecReconf == Init /\ [][NextReconf]_vars

---------------------------------------------------------------------------
(* The export services (services.py). A handler runs without interruption  *)
(* up to its await of an executor job and from the job's return to its     *)
(* end; file access happens inside these two steps. One export is in       *)
(* flight at a time.                                                       *)

IoResults == {"ok", "read_fails", "write_fails"}

\* the handler up to its first await, or to its end if it awaits nothing;
\* io tells whether the file access of this step raises
ExportStart(act, append, features, io) ==
    /\ registered
    /\ exp.pc = "idle"
    /\ n_exports < MaxExports
    /\ n_exports' = n_exports + 1
    /\ act # SERVICE_EXPORT_RECENTLY_PLAYED_CSV => (~append /\ ~features)
    /\ LET call == [NoExport EXCEPT !.act = act, !.append = append,
                                    !.features = features]
           file == files[act]
           snap == data[SENSOR_RECENTLY_PLAYED].cyc
           reads == append /\ file.exists
           new == NewTracks(PlayedAt(snap),
                            IF reads THEN ExistingTimestamps(file) ELSE {})
           read == [call EXCEPT !.snap = snap, !.new = new]
       IN  CASE act \in RemoteExports ->
                    /\ io = "ok"
                    /\ exp' = [call EXCEPT !.pc = "remote", !.sp = sp,
                                           !.result = "running"]
                    /\ UNCHANGED files
             [] act = SERVICE_EXPORT_TOP_STATS_CSV ->
                    /\ io # "read_fails"
                    /\ IF io = "ok"
                       THEN /\ files' = [files EXCEPT ![act] =
                                   [exists |-> TRUE,
                                    rows |-> << << "username", "rank" >>,
                                                << "user", "1" >> >>]]
                            /\ exp' = [call EXCEPT !.result = "written"]
                       ELSE /\ UNCHANGED files
                            /\ exp' = [call EXCEPT !.result = "failed"]
             [] OTHER ->
                    IF io = "read_fails"
                    THEN /\ reads
                         /\ UNCHANGED files
                         /\ exp' = [call EXCEPT !.snap = snap, !.result = "failed"]
                    ELSE IF new = << >>
                    THEN /\ io = "ok"
                         /\ UNCHANGED files
                         /\ exp' = [read EXCEPT !.result = "skipped"]
                    ELSE IF features
                    THEN /\ io = "ok"
                         /\ UNCHANGED files
                         /\ exp' = [read EXCEPT !.pc = "remote", !.sp = sp,
                                                !.result = "running"]
                    ELSE IF io = "write_fails"
                    THEN /\ UNCHANGED files
                         /\ exp' = [read EXCEPT !.result = "failed"]
                    ELSE /\ files' = [files EXCEPT ![act] =
                                         WriteCsv(file, append, new, FALSE)]
                         /\ exp' = [read EXCEPT !.result = "written"]
    /\ UNCHANGED << timeVars, intervalVars, clockVars, data, sp, pc, cdata, kind,
                    cycle, registered, db_timer, db_pending, called, faults,
                    outcome, committed, n_reconf, n_req_cycles, nfaults,
                    fetchVars, hostVars >>

\* the executor job returns or raises and the handler runs to its end
ExportFinish(resp, pls, io) ==
    /\ exp.pc = "remote"
    /\ io # "read_fails"
    /\ exp.act # SERVICE_EXPORT_PLAYLISTS => pls = AllOk
    /\ exp.act = SERVICE_EXPORT_FOLLOWED_ARTISTS => resp = "ok"
    /\ LET act == exp.act
           job == ExportJob(act, resp, pls)
           csv == act = SERVICE_EXPORT_RECENTLY_PLAYED_CSV
           result == IF job.raised # "none" \/ io = "write_fails"
                     THEN "failed" ELSE "written"
       IN  /\ job.raised # "none" => io = "ok"
           /\ data' = IF csv /\ job.raised = "none"
                      THEN MergeAudioFeatures(data, exp.snap) ELSE data
           /\ files' = IF result = "failed" THEN files
                       ELSE [files EXCEPT ![act] =
                               IF csv THEN WriteCsv(files[act], exp.append, exp.new, TRUE)
                               ELSE [exists |-> TRUE, rows |-> job.rows]]
           /\ exp' = [exp EXCEPT !.pc = "idle", !.result = result]
    /\ UNCHANGED << timeVars, intervalVars, clockVars, sp, pc, cdata, kind,
                    cycle, registered, db_timer, db_pending, called, faults,
                    outcome, committed, n_reconf, n_req_cycles, nfaults,
                    n_exports, fetchVars, hostVars >>

\* the steps of a cycle in which the session provider and the remote
\* service answer every call
CycleStepOk ==
    \/ StepToken("ok")
    \/ StepClient("ok")
    \/ \E b \in UngatedBuckets : StepUngated(b, "ok")
    \/ StepFollowed("ok")
    \/ StepTopStats(0, "ok")

(* Exports beside the polling: an entry with the default intervals, its    *)
(* setup, the scheduled ticks with cycles that succeed, the export         *)
(* services with jobs and file access that can fail; the wall clock stands *)
(* still                                                                   *)

NextExport ==
    \/ FirstRefresh
    \/ Tick
    \/ CycleStepOk
    \/ \E act \in ExportActions, append \in BOOLEAN, features \in BOOLEAN,
          io \in IoResults : ExportStart(act, append, features, io)
    \/ \E resp \in {"ok", "500"}, pls \in PlaylistAnswers, io \in IoResults :
          ExportFinish(resp, pls, io)

SpecExport == InitDefault /\ [][NextExport]_vars

(* Normalisation: one fetcher, run on any remote response of up to         *)
(* MaxItems items of which at most one is malformed                        *)

RemoteInputs ==
    { rm \in [b : ItemBuckets, n : 0..MaxItems, bad : 0..MaxItems, more : MoreTotals] :
        /\ rm.bad <= rm.n
        /\ rm.b = SENSOR_RECENTLY_PLAYED => rm.n <= RECENTLY_PLAYED_LIMIT
        /\ rm.b \notin {SENSOR_SAVED_TRACKS, SENSOR_SAVED_ALBUMS} => rm.more = 0 }

InitFetch ==
    /\ InitWith({DEFAULT_NOW_PLAYING_INTERVAL}, {DEFAULT_RECENTLY_PLAYED_INTERVAL})
    /\ remote \in RemoteInputs
    /\ pager = NoPager

\* the executor job of a bucket's fetcher returns or raises
FetchItems ==
    /\ ~fetched.done
    /\ fetched' = FetchRecord(remote)
    /\ UNCHANGED << timeVars, intervalVars, clockVars, data, sp, pc, cdata, kind,
                    cycle, registered, db_timer, db_pending, called, faults,
                    outcome, committed, n_reconf, n_req_cycles, nfaults,
                    exportVars, remote, hostVars >>

NextFetch == FetchItems

SpecFetch == InitFetch /\ [][NextFetch]_vars

---------------------------------------------------------------------------
(* The paginating loops of _fetch_followed_artists (cursor) and of         *)
(* _fetch_saved_library (offset, one loop for albums and one for tracks),  *)
(* against every list of 1..MaxPages pages of 0..MaxPageItems items        *)

PagerKinds == { "followed", "saved_albums", "saved_tracks" }

RECURSIVE PageSizes(_)
\* the lists of k page sizes
PageSizes(k) ==
    IF k = 0 THEN { << >> }
    ELSE { Append(q, n) : q \in PageSizes(k - 1), n \in 0..MaxPageItems }

PagerInputs ==
    { [NoPager EXCEPT !.kind = kd, !.sizes = q, !.arg = FirstPageArg(kd)] :
        kd \in PagerKinds, q \in UNION { PageSizes(k) : k \in 1..MaxPages } }

InitPages ==
    /\ InitWith({DEFAULT_NOW_PLAYING_INTERVAL}, {DEFAULT_RECENTLY_PLAYED_INTERVAL})
    /\ remote = NoRemote
    /\ pager \in PagerInputs

\* one turn of `while True`: the call, the items appended, then break or the
\* next argument
PageStep ==
    /\ pager.kind # "none"
    /\ ~pager.done
    /\ LET resp == ServePage(pager.kind, pager.sizes, pager.arg)
       IN  pager' = [pager EXCEPT
                        !.requests = Append(@, pager.arg),
                        !.served = Append(@, resp.page),
                        !.results = @ \o resp.items,
                        !.done = ~MorePages(resp),
                        !.arg = IF MorePages(resp)
                                THEN NextPageArg(pager.kind, pager.arg, resp)
                                ELSE @]
    /\ UNCHANGED << timeVars, intervalVars, clockVars, data, sp, pc, cdata, kind,
                    cycle, registered, db_timer, db_pending, called, faults,
                    outcome, committed, n_reconf, n_req_cycles, nfaults,
                    exportVars, fetchVars, accountVars >>

NextPages == PageStep

\* the loop is the body of one executor job, which runs until it returns
SpecPages == InitPages /\ [][NextPages]_vars /\ WF_vars(NextPages)

---------------------------------------------------------------------------
(* Several accounts: config flows (config_flow.py), entry setup and unload *)
(* (__init__.py), the scheduled refresh of each stored coordinator and the *)
(* set_update_interval service (services.py). A reload is an unload        *)
(* followed by a setup.                                                    *)

\* usernames a user may type; the first two are equal after sanitization
Usernames == { << "A", "-", "b" >>, << "a", " ", "b" >>, << "c" >> }

\* the usernames typed where several accounts are refreshed side by side
AccountUsernames == { << "A", "-", "b" >>, << "c" >> }

\* intervals given to the set_update_interval service
ServiceIntervals == { 120 }

EntryIds == 1..Len(entries)

\* what no step of the host changes
coordinatorVars ==
    << timeVars, intervalVars, clockVars, data, sp, pc, cdata, kind, cycle,
       registered, db_timer, db_pending, called, faults, outcome, committed,
       n_reconf, n_req_cycles, nfaults, exportVars, fetchVars, pager >>

\* async_step_user with user_input: the duplicate check against the current
\* entries, then the OAuth steps begin
FlowSubmit(f, u) ==
    /\ flows[f].stage = "idle"
    /\ LET existing_usernames ==
               { sanitize_username(entries[e].username) : e \in EntryIds }
       IN  flows' = [flows EXCEPT ![f] =
                        IF sanitize_username(u) \in existing_usernames
                        THEN [stage |-> "aborted", username |-> << >>]
                        ELSE [stage |-> "oauth", username |-> u]]
    /\ UNCHANGED << entries, registry >>
    /\ UNCHANGED coordinatorVars

\* async_oauth_create_entry, after the OAuth steps returned
FlowCreateEntry(f) ==
    /\ flows[f].stage = "oauth"
    /\ entries' = Append(entries, NewEntry(flows[f].username))
    /\ flows' = [flows EXCEPT ![f] = [stage |-> "created", username |-> << >>]]
    /\ UNCHANGED registry
    /\ UNCHANGED coordinatorVars

\* async_setup_entry up to the construction of the coordinator: waiting for
\* the component and getting the OAuth implementation may raise
SetupStart(e, ok) ==
    /\ entries[e].state \in {"not_loaded", "setup_retry"}
    /\ entries' = [entries EXCEPT ![e] =
           IF ok
           THEN [@ EXCEPT !.state = "setup_in_progress", !.step = "first_refresh",
                          !.co = NewCoordinator(entries[e])]
           ELSE [@ EXCEPT !.state = "setup_retry"]]
    /\ UNCHANGED << flows, registry >>
    /\ UNCHANGED coordinatorVars

\* await coordinator.async_config_entry_first_refresh(), then the store
SetupFirstRefresh(e, result) ==
    /\ entries[e].step = "first_refresh"
    /\ IF result = "ok"
       THEN /\ registry' = Store(registry, e, CycleEnd(entries[e].co, "ok"))
            /\ entries' = [entries EXCEPT ![e].step = "platforms",
                                          ![e].co = NoCoordinator]
       ELSE /\ entries' = [entries EXCEPT
                   ![e].state = IF result = "AuthRequired"
                                THEN "setup_error" ELSE "setup_retry",
                   ![e].step = "none",
                   ![e].co = NoCoordinator]
            /\ UNCHANGED registry
    /\ UNCHANGED flows
    /\ UNCHANGED coordinatorVars

\* await hass.config_entries.async_forward_entry_setups(entry, PLATFORMS);
\* an exception leaves through `except Exception: raise ConfigEntryNotReady`
SetupPlatforms(e, ok) ==
    /\ entries[e].step = "platforms"
    /\ entries' = [entries EXCEPT ![e] =
           IF ok THEN [@ EXCEPT !.step = "services"]
           ELSE [@ EXCEPT !.state = "setup_retry", !.step = "none"]]
    /\ UNCHANGED << flows, registry >>
    /\ UNCHANGED coordinatorVars

\* await async_setup_services(hass), the update listener, return True
SetupServices(e, ok) ==
    /\ entries[e].step = "services"
    /\ entries' = [entries EXCEPT ![e] =
           IF ok THEN [@ EXCEPT !.state = "loaded", !.step = "none"]
           ELSE [@ EXCEPT !.state = "setup_retry", !.step = "none"]]
    /\ UNCHANGED << flows, registry >>
    /\ UNCHANGED coordinatorVars

\* async_unload_entry of a loaded entry: the coordinator is popped only when
\* the platforms unloaded
UnloadEntry(e, unload_ok) ==
    /\ entries[e].state = "loaded"
    /\ IF unload_ok
       THEN /\ registry' = Pop(registry, e)
            /\ entries' = [entries EXCEPT ![e].state = "not_loaded"]
       ELSE /\ entries' = [entries EXCEPT ![e].state = "failed_unload"]
            /\ UNCHANGED registry
    /\ UNCHANGED flows
    /\ UNCHANGED coordinatorVars

\* the host unloads an entry whose setup failed: it cancels the retry and
\* does not call async_unload_entry
UnloadNotLoaded(e) ==
    /\ entries[e].state \in {"setup_retry", "setup_error"}
    /\ entries' = [entries EXCEPT ![e].state = "not_loaded"]
    /\ UNCHANGED << flows, registry >>
    /\ UNCHANGED coordinatorVars

\* the scheduled refresh of the coordinator of a loaded entry begins
TickStart(e) ==
    /\ entries[e].state = "loaded"
    /\ e \in RegistryIds(registry)
    /\ ~CoordinatorOf(registry, e).running
    /\ registry' = [registry EXCEPT ![RegistryIndex(registry, e)].co.running = TRUE]
    /\ UNCHANGED << flows, entries >>
    /\ UNCHANGED coordinatorVars

\* a running cycle of the coordinator stored for entry e ends
TickEnd(e, result) ==
    /\ e \in RegistryIds(registry)
    /\ CoordinatorOf(registry, e).running
    /\ registry' = [registry EXCEPT ![RegistryIndex(registry, e)].co =
                        CycleEnd(@, result)]
    /\ UNCHANGED << flows, entries >>
    /\ UNCHANGED coordinatorVars

\* the set_update_interval service, called with a username and a
\* now-playing interval
ServiceSetUpdateInterval(u, np) ==
    /\ get_coordinator_for_username(registry, u) # 0
    /\ ValidNowPlaying(np)
    /\ registry' = SetIntervals(registry, get_coordinator_for_username(registry, u), np)
    /\ UNCHANGED << flows, entries >>
    /\ UNCHANGED coordinatorVars

\* the steps of the config flows, for usernames typed from U
FlowStep(U) ==
    \/ \E f \in 1..MaxFlows, u \in U : FlowSubmit(f, u)
    \/ \E f \in 1..MaxFlows : FlowCreateEntry(f)

\* the steps of entry setup and unload, each ending well or not
SetupStep ==
    \/ \E e \in EntryIds, ok \in BOOLEAN : SetupStart(e, ok)
    \/ \E e \in EntryIds, r \in {"ok"} \cup Failures : SetupFirstRefresh(e, r)
    \/ \E e \in EntryIds, ok \in BOOLEAN : SetupPlatforms(e, ok)
    \/ \E e \in EntryIds, ok \in BOOLEAN : SetupServices(e, ok)
    \/ \E e \in EntryIds, ok \in BOOLEAN : UnloadEntry(e, ok)
    \/ \E e \in EntryIds : UnloadNotLoaded(e)

\* the steps of a setup that ends well
SetupOkStep ==
    \/ \E e \in EntryIds : SetupStart(e, TRUE)
    \/ \E e \in EntryIds : SetupFirstRefresh(e, "ok")
    \/ \E e \in EntryIds : SetupPlatforms(e, TRUE)
    \/ \E e \in EntryIds : SetupServices(e, TRUE)

\* the refresh cycles of the stored coordinators and the service
RefreshStep ==
    \/ \E e \in EntryIds : TickStart(e)
    \/ \E e \in EntryIds, r \in {"ok"} \cup Failures : TickEnd(e, r)
    \/ \E u \in Usernames, np \in ServiceIntervals : ServiceSetUpdateInterval(u, np)

(* Config flows side by side, their entries being set up, unloaded and set *)
(* up again                                                                *)

NextSetup ==
    \/ FlowStep(Usernames)
    \/ SetupStep

SpecSetup == InitDefault /\ [][NextSetup]_vars

(* Several loaded accounts, their ticks and the service                    *)

NextAccounts ==
    \/ FlowStep(AccountUsernames)
    \/ SetupOkStep
    \/ RefreshStep

SpecAccounts == InitDefault /\ [][NextAccounts]_vars

---------------------------------------------------------------------------
(* Properties                                                              *)

GatedBuckets == {SENSOR_FOLLOWED_ARTISTS} \cup TopKeys

\* the steps of a cycle that fetch a bucket
FetchSteps == UngatedBuckets \cup {SENSOR_FOLLOWED_ARTISTS, "top_stats"}

\* C1: a gated bucket (followed-artists, gate 3600 s; the six top-stats
\* records, gate 86400 s) whose record in the committed snapshot was fetched
\* at T is, in a cycle that reaches its gate at t with t - T < gate, not
\* called for and carried forward unchanged, and a cycle that commits without
\* having called for a gated bucket commits the previous snapshot's record.
C1_GatedBucketCarriedForward ==
    [][ /\ ( /\ pc = SENSOR_FOLLOWED_ARTISTS
             /\ pc' # pc
             /\ HasData
             /\ now - data[SENSOR_FOLLOWED_ARTISTS].at < 3600 )
           => ( /\ SENSOR_FOLLOWED_ARTISTS \notin called'
                /\ pc' = "top_stats"
                /\ cdata'[SENSOR_FOLLOWED_ARTISTS] = data[SENSOR_FOLLOWED_ARTISTS] )
        /\ ( /\ pc = "top_stats"
             /\ pc' # pc
             /\ HasData
             /\ \E key \in TopKeys : now - data[key].at < 86400 )
           => ( /\ called' \cap TopKeys = {}
                /\ pc' = SENSOR_USER_PLAYLISTS
                /\ \A key \in TopKeys : cdata'[key] = data[key] )
        /\ ( outcome = "running" /\ outcome' = "ok" /\ HasData )
           => \A b \in GatedBuckets : b \notin called' => data'[b] = data[b]
      ]_vars

\* C1 witness: a cycle 1800 s after the followed-artists fetch committed the
\* snapshot with no call for any gated bucket, the records being an earlier
\* cycle's.
C1_Witness ==
    /\ pc = "idle"
    /\ outcome = "ok"
    /\ called \cap GatedBuckets = {}
    /\ \A b \in GatedBuckets : data[b].cyc < cycle
    /\ now - data[SENSOR_FOLLOWED_ARTISTS].at = 1800

\* C2: a 401 answer during the fetch of any bucket ends the cycle with
\* AuthRequired, and the cycle commits nothing.
C2_AuthFailureInAnyBucketFailsCycle ==
    (pc = "idle" /\ \E b \in FetchSteps : << b, "401" >> \in faults)
        => outcome = "AuthRequired"

\* C3: a remote error other than 401 during the fetch of any bucket ends the
\* cycle with UpdateFailed, and the cycle commits nothing.
C3_RemoteErrorInAnyBucketFailsCycle ==
    (pc = "idle" /\ \E b \in FetchSteps, r \in {"500", "exc"} : << b, r >> \in faults)
        => outcome = "UpdateFailed"

\* C4: after a cycle that ended with AuthRequired or UpdateFailed, at
\* whichever step, the coordinator's snapshot is the one the last successful
\* cycle committed.
C4_FailedCycleKeepsSnapshot ==
    outcome \in Failures => data = committed

\* C4 witness: a cycle of a coordinator that holds a snapshot failed after it
\* had already fetched buckets.
C4_Witness ==
    /\ pc = "idle"
    /\ outcome \in Failures
    /\ HasData
    /\ SENSOR_RECENTLY_PLAYED \in called
    /\ data = committed

\* C5: the token step ends the cycle with AuthRequired exactly when the
\* session provider reports revoked consent or an unusable credential (a
\* token without access_token included); a transient network failure of the
\* provider ends it with another outcome.
C5_TokenStepOutcome ==
    \A r \in TokenResp :
        (pc = "idle" /\ << "token", r >> \in faults)
            => (outcome = "AuthRequired" <=> r \in {"revoked", "no_access_token"})

\* C6: the six top-stats records of a committed snapshot come from one fetch
\* group (same cycle, same fetch time), and between cycles
\* last_top_stats_update is the time of that group's fetch.
C6_TopStatsOneGroup ==
    HasData =>
        /\ TopKeys \subseteq DOMAIN data
        /\ \A k1, k2 \in TopKeys \cap DOMAIN data :
               /\ data[k1].st = "ok"
               /\ data[k1].cyc = data[k2].cyc
               /\ data[k1].at = data[k2].at
        /\ pc = "idle" =>
               \A key \in TopKeys \cap DOMAIN data : data[key].at = last_top_stats_update

\* C6 witness: a later cycle re-fetched the group once the gate of 86400 s
\* had passed and committed it.
C6_Witness ==
    /\ pc = "idle"
    /\ outcome = "ok"
    /\ cycle >= 2
    /\ \A key \in TopKeys : data[key].cyc = cycle /\ data[key].at >= 86400
    /\ last_top_stats_update = now

\* C7: the followed-artists step calls the remote service exactly when
\* last_followed_update is unset or at least 3600 s old; a fetch that
\* returns sets last_followed_update to the current time, a step that does
\* not fetch leaves it alone.
C7_FollowedGate ==
    [][ (pc = SENSOR_FOLLOWED_ARTISTS /\ pc' # pc) =>
          LET due == \/ last_followed_update = NoTime
                     \/ now - last_followed_update >= 3600
          IN  /\ (SENSOR_FOLLOWED_ARTISTS \in called') <=> due
              /\ (due /\ pc' = "top_stats") => last_followed_update' = now
              /\ ~due => last_followed_update' = last_followed_update
      ]_vars

\* C7 witness: with the snapshot's followed-artists fetched at T, a cycle at
\* T+3700 has made the call and advanced last_followed_update to T+3700.
C7_Witness ==
    /\ pc = "top_stats"
    /\ HasData
    /\ SENSOR_FOLLOWED_ARTISTS \in called
    /\ last_followed_update = now
    /\ now - data[SENSOR_FOLLOWED_ARTISTS].at = 3700

\* C8: a cycle that commits has called the remote service for each of the
\* five ungated buckets, and the committed records of these buckets are this
\* cycle's own, never a previous snapshot's.
C8_UngatedAlwaysFetched ==
    (pc = "idle" /\ outcome = "ok") =>
        \A b \in UngatedBuckets : b \in called /\ data[b].cyc = cycle

\* C8 witness: a later cycle, run with no time elapsed that would make a
\* gated bucket due, committed with the gated buckets carried forward and the
\* ungated ones fetched.
C8_Witness ==
    /\ pc = "idle"
    /\ outcome = "ok"
    /\ cycle >= 2
    /\ called = UngatedBuckets
    /\ \A b \in UngatedBuckets : data[b].cyc = cycle

\* C9: in every state the tick period is the smaller of the two intervals.
C9_TickPeriodIsMin ==
    update_interval =
        IF now_playing_interval <= recently_played_interval
        THEN now_playing_interval ELSE recently_played_interval

\* C9 witness: after two reconfigure calls the intervals are 30 s and 3600 s
\* and the tick period is 30 s.
C9_Witness ==
    /\ n_reconf >= 2
    /\ now_playing_interval = 30
    /\ recently_played_interval = 3600
    /\ update_interval = 30

C11_SnapshotAtomicForReaders ==
    /\ data = committed
    /\ HasData => DOMAIN data = Buckets
    /\ pc # "idle" => \A b \in DOMAIN data : data[b].cyc < cycle

\* C11 witness: a later cycle is suspended before the saved-tracks fetch with
\* five steps' records in its local dict, while the snapshot is still the
\* complete previous one.
C11_Witness ==
    /\ pc = SENSOR_SAVED_TRACKS
    /\ HasData
    /\ DOMAIN data = Buckets
    /\ SENSOR_USER_PLAYLISTS \in DOMAIN cdata
    /\ cdata[SENSOR_NOW_PLAYING].cyc = cycle
    /\ data[SENSOR_NOW_PLAYING].cyc < cycle

\* C19: a cycle obtains the token, then builds the client, then makes its
\* first bucket fetch, and at every bucket fetch the client is the one built
\* in this cycle.
C19_TokenThenClientThenFetch ==
    /\ [](pc \in FetchSteps => sp = cycle)
    /\ [][ /\ (pc' = "token" /\ pc # "token") => pc = "idle"
           /\ (pc' = "client" /\ pc # "client") => pc = "token"
           /\ (pc' \in FetchSteps /\ pc \notin FetchSteps) =>
                  (pc = "client" /\ pc' = SENSOR_NOW_PLAYING /\ sp' = cycle /\ called' = {})
         ]_vars

\* C19 witness: a cycle after the first has made its first fetch with a client
\* that is not the first cycle's.
C19_Witness ==
    /\ cycle >= 2
    /\ pc = SENSOR_RECENTLY_PLAYED
    /\ SENSOR_NOW_PLAYING \in called
    /\ sp = cycle
    /\ HasData

\* C20: a cycle that ended with UpdateFailed leaves no state behind: the
\* tick period is unchanged and the staleness clocks that decide which gated
\* buckets the next cycle attempts are those of the committed snapshot, as if
\* the failed cycle had not run.
C20_FailedCycleLeavesNoTrace ==
    (pc = "idle" /\ outcome = "UpdateFailed" /\ HasData) =>
        /\ update_interval = Min(now_playing_interval, recently_played_interval)
        /\ last_followed_update = data[SENSOR_FOLLOWED_ARTISTS].at
        /\ \A key \in TopKeys : last_top_stats_update = data[key].at

\* C14: a response with one malformed item is normalised by skipping that
\* item: the fetcher raises nothing and its record holds the other items in
\* remote order, whichever bucket it is.
C14_MalformedItemSkipped ==
    (fetched.done /\ remote.bad # 0) =>
        /\ fetched.raised = "none"
        /\ fetched.full = GoodItems(remote)

\* C15: for followed-artists, playlists, saved-tracks and saved-albums and
\* every response, the display list has at most 20 entries and is a prefix of
\* the full normalised list, and count is the untruncated total: the length
\* of the full list, or the remote total for the saved library.
C15_TruncationLaw ==
    (fetched.done /\ fetched.raised = "none" /\ remote.b \in TruncatedBuckets) =>
        /\ Len(fetched.display) <= 20
        /\ Len(fetched.display) <= Len(fetched.full)
        /\ \A i \in 1..Len(fetched.display) : fetched.display[i] = fetched.full[i]
        /\ Len(fetched.full) <= 20 => fetched.display = fetched.full
        /\ fetched.count =
               IF remote.b \in {SENSOR_SAVED_TRACKS, SENSOR_SAVED_ALBUMS}
               THEN remote.n + remote.more
               ELSE Len(fetched.full)

\* C15 witness: a followed-artists response of more than 20 artists gave a
\* display list of 20 and a count above 20.
C15_Witness ==
    /\ fetched.done
    /\ remote.b = SENSOR_FOLLOWED_ARTISTS
    /\ Len(fetched.full) > 20
    /\ Len(fetched.display) = 20
    /\ fetched.count = Len(fetched.full)

\* C12: no step of an export action changes a record of the coordinator's
\* snapshot; in particular the recently-played record is the same before and
\* after export_recently_played_csv, with or without audio features.
C12_ReadersNeverWrite ==
    [][ (exp' # exp \/ n_exports' # n_exports) => data' = data ]_vars

C16_PlaylistExportDegrades ==
    [][ \A pls \in PlaylistAnswers :
          ( /\ exp.act = SERVICE_EXPORT_PLAYLISTS
            /\ \E i \in 1..MaxPlaylists : pls[i] = "404"
            /\ \A i \in 1..MaxPlaylists : pls[i] \in {"ok", "404"}
            /\ ExportFinish("ok", pls, "ok") )
          => ( /\ exp'.result = "written"
               /\ files'[SERVICE_EXPORT_PLAYLISTS].exists
               /\ files'[SERVICE_EXPORT_PLAYLISTS].rows =
                      [i \in 1..MaxPlaylists |->
                          << ToString(i), IF pls[i] = "404" THEN "note" ELSE "full" >>] )
      ]_vars

\* C17: the step in which an export action fails changes neither the
\* snapshot nor the staleness clocks, the intervals, the tick period or the
\* running cycle and its schedule.
C17_FailedExportLocalized ==
    [][ ((exp' # exp \/ n_exports' # n_exports) /\ exp'.result = "failed") =>
          /\ data' = data
          /\ UNCHANGED << clockVars, intervalVars, pc, cdata, kind, cycle, sp,
                          registered, db_timer, db_pending, outcome >>
      ]_vars

\* C18: while the executor job of an export makes remote calls through a
\* client instance, no refresh cycle is at a bucket fetch with that same
\* instance.
C18_ClientNotSharedWithExport ==
    ~( /\ exp.pc = "remote"
       /\ pc \in FetchSteps
       /\ exp.sp = sp )

\* C24: between the cycles of a stored coordinator a staleness clock that is
\* set is the fetch time of the committed snapshot's records of its bucket:
\* last_followed_update that of the followed-artists record,
\* last_top_stats_update that of the six top-stats records; a cycle that
\* failed after fetching a gated bucket has not advanced the clock.
C24_ClockNeverAheadOfSnapshot ==
    (pc = "idle" /\ registered) =>
        /\ last_followed_update # NoTime =>
               (HasData /\ data[SENSOR_FOLLOWED_ARTISTS].at = last_followed_update)
        /\ last_top_stats_update # NoTime =>
               (HasData /\ \A key \in TopKeys : data[key].at = last_top_stats_update)

\* C25: every snapshot a cycle committed holds a record that is not None for
\* each of the 12 buckets.
C25_CommittedSnapshotComplete ==
    HasData =>
        /\ DOMAIN data = Buckets
        /\ Cardinality(DOMAIN data) = 12
        /\ \A b \in Buckets : data[b] # NoneRec /\ data[b].st # "none"

\* C25 witness: a stored coordinator committed again after a failed cycle,
\* with all seven gated records carried forward from an earlier cycle.
C25_Witness ==
    /\ pc = "idle"
    /\ outcome = "ok"
    /\ nfaults >= 1
    /\ cycle >= 3
    /\ called \cap GatedBuckets = {}
    /\ \A b \in GatedBuckets : data[b].cyc < cycle /\ data[b].st = "ok"

\* C26: a failing remote call inside the playlists, saved-tracks or
\* saved-albums fetcher does not fail the cycle: the cycle goes on, commits,
\* and the committed record of that bucket is this cycle's empty record.
C26_SwallowedFetchCommitsEmpty ==
    \A b \in SwallowingBuckets :
        (\E r \in RemoteResp \ {"ok"} : << b, r >> \in faults) =>
            /\ outcome \in {"running", "ok"}
            /\ pc # "idle" => cdata[b] = Rec(cycle, NoTime, "empty")
            /\ pc = "idle" => (outcome = "ok" /\ data[b] = Rec(cycle, NoTime, "empty"))

\* C26 witness: the saved-tracks call of a later cycle answered 500 and the
\* cycle committed the empty record in place of the earlier cycle's.
C26_Witness ==
    /\ pc = "idle"
    /\ outcome = "ok"
    /\ cycle >= 2
    /\ registered
    /\ << SENSOR_SAVED_TRACKS, "500" >> \in faults
    /\ data[SENSOR_SAVED_TRACKS] = Rec(cycle, NoTime, "empty")
    /\ data[SENSOR_SAVED_ALBUMS] = Rec(cycle, NoTime, "ok")

\* C27: a cycle of a stored coordinator ends with UpdateFailed or
\* AuthRequired only at a step whose token, client or remote answer was a
\* failure; the carry-forward of a gated bucket never raises, so a cycle whose
\* answers all succeed commits.
C27_Recovery ==
    [][ (registered /\ outcome = "running" /\ outcome' # "running") =>
            /\ outcome' \in Failures => nfaults' = nfaults + 1
            /\ nfaults' = nfaults => (outcome' = "ok" /\ DOMAIN data' = Buckets)
      ]_vars

\* C27 witness: a stored coordinator's cycle failed after the followed-artists
\* fetch had advanced its clock; the next cycle carried followed-artists
\* forward from the snapshot and committed.
C27_Witness ==
    /\ pc = "idle"
    /\ outcome = "ok"
    /\ registered
    /\ nfaults >= 1
    /\ cycle >= 3
    /\ faults = {}
    /\ SENSOR_FOLLOWED_ARTISTS \notin called
    /\ data[SENSOR_FOLLOWED_ARTISTS].cyc = 1
    /\ last_followed_update > data[SENSOR_FOLLOWED_ARTISTS].at

\* C28: a stored coordinator has a snapshot and a client.
C28_StoredCoordinatorRefreshed ==
    registered => (HasData /\ DOMAIN data = Buckets /\ sp # 0)

\* C28 witness: a stored coordinator whose latest cycle failed at the token or
\* client step still has the snapshot and the client of an earlier cycle.
C28_Witness ==
    /\ registered
    /\ pc = "idle"
    /\ outcome \in Failures
    /\ HasData
    /\ sp # 0
    /\ sp < cycle

\* C22: for each of the six top-stats buckets, the record of a response of n
\* items has count n and lists the n items in remote order with the rank
\* fields 1, 2, ..., n.
C22_TopStatsRanks ==
    (fetched.done /\ fetched.raised = "none" /\ remote.b \in TopKeys) =>
        /\ fetched.count = remote.n
        /\ Len(fetched.full) = remote.n
        /\ Len(fetched.ranks) = remote.n
        /\ \A i \in 1..remote.n :
               /\ fetched.full[i] = Items(remote)[i]
               /\ fetched.ranks[i] = i

\* C22 witness: a top-tracks response of three items gave the ranks 1, 2, 3.
C22_Witness ==
    /\ fetched.done
    /\ fetched.raised = "none"
    /\ remote.b = "top_tracks_6months"
    /\ remote.n = 3
    /\ fetched.count = 3
    /\ fetched.ranks = << 1, 2, 3 >>

\* C21: for every list of pages, the paginating fetcher requests page 1, 2,
\* ... in order, each once, the first with no cursor (offset 0) and each
\* further one with the cursor the previous page gave (the offset 50 further);
\* it requests nothing after the first page without a next link, it
\* terminates, and its result is then the concatenation of all pages' items.
C21_PagesUntilEndOfList ==
    /\ [] ( /\ Len(pager.served) <= Len(pager.sizes)
            /\ \A i \in 1..Len(pager.served) :
                   /\ pager.served[i] = i
                   /\ pager.requests[i] =
                          IF pager.kind = "followed"
                          THEN (IF i = 1 THEN NoCursor ELSE i - 1)
                          ELSE 50 * (i - 1)
            /\ pager.results = ConcatPages(pager.sizes, Len(pager.served))
            /\ pager.done <=> (pager.kind # "none" /\ Len(pager.served) = Len(pager.sizes)) )
    /\ <>(pager.done)

\* C21 witness: the followed-artists loop ended after three pages, the
\* second of them empty, with the items of the first and the third.
C21_Witness ==
    /\ pager.done
    /\ pager.kind = "followed"
    /\ pager.sizes = << 2, 0, 1 >>
    /\ pager.requests = << 0, 1, 2 >>
    /\ pager.results = << << 1, 1 >>, << 1, 2 >>, << 3, 1 >> >>

\* C23: a step of a refresh cycle (its start, its commit, its failure) or of
\* a set_update_interval call changes the snapshot, clock, intervals and tick
\* period of one stored coordinator only, the one the cycle runs on or the
\* call resolved; every other stored coordinator is unchanged, whatever the
\* other accounts are in the middle of.
C23_AccountsIndependent ==
    [][ (entries' = entries /\ flows' = flows /\ registry' # registry) =>
          LET changed == { i \in 1..Len(registry) : registry'[i] # registry[i] }
          IN  /\ Len(registry') = Len(registry)
              /\ \A i, j \in changed : i = j
              /\ \A i \in changed :
                     /\ registry'[i].id = registry[i].id
                     /\ \/ TickStart(registry[i].id)
                        \/ \E r \in {"ok"} \cup Failures : TickEnd(registry[i].id, r)
                        \/ \E u \in Usernames, np \in ServiceIntervals :
                              /\ sanitize_username(registry[i].co.username)
                                     = sanitize_username(u)
                              /\ ServiceSetUpdateInterval(u, np)
      ]_vars

\* C23 witness: of two stored coordinators the first was reconfigured to
\* 120 s and committed a second snapshot while the second, with the intervals
\* of its entry and its first snapshot, is in the middle of a cycle.
C23_Witness ==
    /\ Len(registry) = 2
    /\ registry[1].co.np = 120
    /\ registry[1].co.period = 120
    /\ registry[1].co.snap = 2
    /\ ~registry[1].co.running
    /\ registry[2].co.np = 30
    /\ registry[2].co.period = 30
    /\ registry[2].co.snap = 1
    /\ registry[2].co.running

\* C29: once no setup of an entry is in progress, the registry holds a
\* coordinator for the entry exactly when its setup ended well and it has not
\* been unloaded since.
C29_RegistryIffLoaded ==
    \A e \in EntryIds :
        entries[e].state # "setup_in_progress" =>
            ( e \in RegistryIds(registry)
                <=> entries[e].state \in {"loaded", "failed_unload"} )

\* C30: no two entries have usernames that are equal after sanitization,
\* and at most one stored coordinator matches any username.
C30_SanitizedUsernamesUnique ==
    /\ \A e1, e2 \in EntryIds :
           e1 # e2 => sanitize_username(entries[e1].username)
                          # sanitize_username(entries[e2].username)
    /\ \A u \in Usernames :
           Cardinality({ i \in 1..Len(registry) :
                           sanitize_username(registry[i].co.username)
                               = sanitize_username(u) }) <= 1

====
